---- MODULE Spec2Model ----
(***************************************************************************)
(* A model of pkg/tdigest/tdigest.go: the TDigest value, its Add and       *)
(* Quantile methods and the helpers they call.                             *)
(*                                                                         *)
(* float64 values are modelled as exact rationals <<num, den>> (den > 0,   *)
(* lowest terms).  Rounding, overflow and non-finite values are outside    *)
(* the model; NaN appears only as the value Quantile returns for an empty  *)
(* digest.  Go slices are 0-based, TLA+ sequences 1-based: the centroid at *)
(* Go index i is centroids[i + 1].                                         *)
(***************************************************************************)
EXTENDS Integers, Sequences, FiniteSets, TLC

\* ---------------------------------------------------------------- bounds
\* Number of Add calls explored.
MaxAdds == 5
\* Added values are the integers 0..MaxVal.
MaxVal == 2
\* Compressions are the rationals k/CompDen, k \in 1..MaxCompNum.
CompDen == 2
MaxCompNum == 4
\* Quantile arguments are the rationals k/QDen, k \in -1..QDen+1.
QDen == 4

\* ------------------------------------------------------ program constants
binarySearchThreshold == 32

\* ------------------------------------------------------- float64 as rationals
RECURSIVE Gcd(_, _)
Gcd(a, b) == IF b = 0 THEN a ELSE Gcd(b, a % b)

Abs(x) == IF x < 0 THEN -x ELSE x

\* The rational n/d (d # 0) in lowest terms with a positive denominator.
Rat(n, d) ==
  LET g == Gcd(Abs(n), Abs(d))
      s == IF d < 0 THEN -1 ELSE 1
  IN  <<(s * n) \div g, (s * d) \div g>>

F(n) == <<n, 1>>

RAdd(a, b) == Rat(a[1] * b[2] + b[1] * a[2], a[2] * b[2])
RSub(a, b) == Rat(a[1] * b[2] - b[1] * a[2], a[2] * b[2])
RMul(a, b) == Rat(a[1] * b[1], a[2] * b[2])
RDiv(a, b) == Rat(a[1] * b[2], a[2] * b[1])
RLt(a, b) == a[1] * b[2] < b[1] * a[2]
RLe(a, b) == a[1] * b[2] <= b[1] * a[2]

\* ------------------------------------------------------------------ state
VARIABLES
  centroids,     \* TDigest.centroids: sequence of centroid records
  compression,   \* TDigest.compression
  count,         \* TDigest.count
  nCentroids,    \* TDigest.nCentroids
  p5Centroid,    \* TDigest.p5Centroid
  p95Centroid,   \* TDigest.p95Centroid
  appendLower,   \* TDigest.appendLower
  panicked,      \* an index-out-of-range panic has ended the program
  nAdds,         \* number of Add calls that have returned
  ret            \* what the most recent call returned

vars == <<centroids, compression, count, nCentroids, p5Centroid, p95Centroid,
          appendLower, panicked, nAdds, ret>>

\* The receiver d of the methods, as a record of its fields.
D ==
  [centroids |-> centroids, compression |-> compression, count |-> count,
   nCentroids |-> nCentroids, p5Centroid |-> p5Centroid,
   p95Centroid |-> p95Centroid, appendLower |-> appendLower]

\* Mutant of newCentroid: the count field is left at its zero value.
newCentroidNoCount(mean) ==
  [mean |-> mean, count |-> 0, maxCount |-> F(0), nCentroids |-> 0]

\* &centroid{mean: mean, count: 1}: the cache fields take their zero values.
newCentroid(mean) ==
  [mean |-> mean, count |-> 1, maxCount |-> F(0), nCentroids |-> 0]

\* centroid.inc
inc(c, val) ==
  LET cnt == c.count + 1
  IN  [c EXCEPT !.count = cnt,
                !.mean = RAdd(c.mean, RDiv(RSub(val, c.mean), F(cnt)))]

\* New(compression)
New(comp) ==
  [centroids |-> <<>>, compression |-> comp, count |-> 0, nCentroids |-> 0,
   p5Centroid |-> 0, p95Centroid |-> 0, appendLower |-> FALSE]

\* Sum of the count fields of cs[lo..hi] (1-based, empty when lo > hi).
RECURSIVE sumCounts(_, _, _)
sumCounts(cs, lo, hi) ==
  IF lo > hi THEN 0 ELSE cs[lo].count + sumCounts(cs, lo + 1, hi)

\* Mutant of quantileFromTop: the sum starts at d.centroids[idx:], so the
\* centroid's own count is added in full.
quantileFromTopOffByOne(d, idx) ==
  LET total == sumCounts(d.centroids, idx + 1, Len(d.centroids))
  IN  RSub(F(1),
           RDiv(RAdd(Rat(d.centroids[idx + 1].count, 2), F(total)),
                F(d.count)))

\* quantileOf, the branch that sums from the top of the distribution.
quantileFromTop(d, idx) ==
  LET total == sumCounts(d.centroids, idx + 2, Len(d.centroids))
  IN  RSub(F(1),
           RDiv(RAdd(Rat(d.centroids[idx + 1].count, 2), F(total)),
                F(d.count)))

\* quantileOf, the branch that sums from the bottom.
quantileFromBottom(d, idx) ==
  LET total == sumCounts(d.centroids, 1, idx)
  IN  RDiv(RAdd(Rat(d.centroids[idx + 1].count, 2), F(total)),
           F(d.count))

\* TDigest.quantileOf: the approximate quantile of centroid idx.
quantileOf(d, idx) ==
  IF idx > d.nCentroids \div 2
  THEN quantileFromTop(d, idx)
  ELSE quantileFromBottom(d, idx)

\* TDigest.hasRoom: recomputes and caches the weight limit of centroid idx.
\* Returns the result and the digest with the centroid's cache updated.
hasRoom(d, idx) ==
  LET c     == d.centroids[idx + 1]
      ptile == quantileOf(d, idx)
      max   == RMul(RMul(RMul(RMul(F(4), d.compression), ptile),
                         RSub(F(1), ptile)),
                    F(d.nCentroids))
      c2    == [c EXCEPT !.maxCount = max, !.nCentroids = d.nCentroids]
  IN  [room |-> RLt(F(c2.count), c2.maxCount),
       d    |-> [d EXCEPT !.centroids[idx + 1] = c2]]

\* Mutant of roomCheck: "&& d.hasRoom(idx, c)" is missing, a centroid whose
\* cache is stale counts as having room.
roomCheckStaleIsRoom(d, idx) ==
  LET c == d.centroids[idx + 1]
  IN  IF RLt(F(c.count), c.maxCount)
      THEN [room |-> TRUE, d |-> d]
      ELSE [room |-> c.nCentroids # d.nCentroids, d |-> d]

\* The expression add evaluates for left and for right:
\*   (c.count < c.maxCount) || (c.nCentroids != d.nCentroids && d.hasRoom(idx, c))
\* with Go's short-circuit evaluation: hasRoom runs only when it is reached.
roomCheck(d, idx) ==
  LET c == d.centroids[idx + 1]
  IN  IF RLt(F(c.count), c.maxCount)
      THEN [room |-> TRUE, d |-> d]
      ELSE IF c.nCentroids # d.nCentroids
           THEN hasRoom(d, idx)
           ELSE [room |-> FALSE, d |-> d]

\* Mutant of addCentroid: d.nCentroids++ is missing.
addCentroidNoIncrement(d, idx, mean) ==
  LET n  == d.nCentroids
      cs == SubSeq(d.centroids, 1, idx) \o <<newCentroid(mean)>>
            \o SubSeq(d.centroids, idx + 1, Len(d.centroids))
  IN  [d EXCEPT !.centroids = cs,
                !.p5Centroid = IF n >= 3 THEN (n * 3) \div 8 ELSE @,
                !.p95Centroid = IF n >= 3 THEN ((n * 5) \div 8) + 1 ELSE @]

\* TDigest.addCentroid: a new centroid at index idx with mean mean.
addCentroid(d, idx, mean) ==
  LET n  == d.nCentroids + 1
      cs == SubSeq(d.centroids, 1, idx) \o <<newCentroid(mean)>>
            \o SubSeq(d.centroids, idx + 1, Len(d.centroids))
  IN  [d EXCEPT !.nCentroids = n,
                !.centroids = cs,
                !.p5Centroid = IF n >= 3 THEN (n * 3) \div 8 ELSE @,
                !.p95Centroid = IF n >= 3 THEN ((n * 5) \div 8) + 1 ELSE @]

\* The initial search window <<left, right>> of nearest, narrowed with the
\* cached p5/p95 indices.
nearestWindow(d, val) ==
  IF RLt(d.centroids[d.p5Centroid + 1].mean, val)
  THEN IF RLt(val, d.centroids[d.p95Centroid + 1].mean)
       THEN <<d.p5Centroid, d.p95Centroid + 1>>
       ELSE <<d.p5Centroid, d.nCentroids>>
  ELSE <<0, d.p5Centroid>>

\* The binary-search loop of nearest, run with crossover threshold t.
\* [found |-> TRUE, idx] is an early return; otherwise the window it
\* leaves for the linear scan.
RECURSIVE binarySearch(_, _, _, _, _)
binarySearch(d, val, left, right, t) ==
  LET diff   == right - left
      middle == left + diff \div 2
  IN  IF diff > t
      THEN IF RLt(d.centroids[middle + 1].mean, val)
           THEN IF RLt(val, d.centroids[middle + 2].mean)
                THEN [found |-> TRUE, idx |-> middle, left |-> left, right |-> right]
                ELSE binarySearch(d, val, middle + 1, right, t)
           ELSE IF RLt(d.centroids[middle].mean, val)
                THEN [found |-> TRUE, idx |-> middle - 1, left |-> left, right |-> right]
                ELSE binarySearch(d, val, left, middle, t)
      ELSE [found |-> FALSE, idx |-> 0, left |-> left, right |-> right]

\* The linear scan of nearest over d.centroids[left+1:]: the Go index before
\* the first centroid whose mean exceeds val, or right - 1 when none does.
linearScan(d, val, left, right) ==
  LET hits == {j \in (left + 1)..(Len(d.centroids) - 1) :
                 RLt(val, d.centroids[j + 1].mean)}
  IN  IF hits = {} THEN right - 1
      ELSE (CHOOSE j \in hits : \A k \in hits : j <= k) - 1

\* nearest with crossover threshold t.
nearestT(d, val, t) ==
  LET w == nearestWindow(d, val)
      b == binarySearch(d, val, w[1], w[2], t)
  IN  IF b.found THEN b.idx ELSE linearScan(d, val, b.left, b.right)

\* TDigest.nearest
nearest(d, val) == nearestT(d, val, binarySearchThreshold)

\* d.centroids[idx].inc(val)
incAt(d, idx, val) ==
  [d EXCEPT !.centroids[idx + 1] = inc(d.centroids[idx + 1], val)]

\* Mutant of addOne: the first centroid is folded into while its count is at
\* most compression (<= for <).
addOneUpToCompression(d, val) ==
  LET centroid == d.centroids[1]
  IN  IF RLe(F(centroid.count), d.compression)
      THEN incAt(d, 0, val)
      ELSE IF RLt(val, centroid.mean)
           THEN addCentroid(d, 0, val)
           ELSE addCentroid(d, 1, val)

\* Mutant of addOne: the comparison that picks the side of the second
\* centroid is reversed.
addOneReversed(d, val) ==
  LET centroid == d.centroids[1]
  IN  IF RLt(F(centroid.count), d.compression)
      THEN incAt(d, 0, val)
      ELSE IF RLt(centroid.mean, val)
           THEN addCentroid(d, 0, val)
           ELSE addCentroid(d, 1, val)

\* add, case 1 of the switch: there is exactly one centroid.
addOne(d, val) ==
  LET centroid == d.centroids[1]
  IN  IF RLt(F(centroid.count), d.compression)
      THEN incAt(d, 0, val)
      ELSE IF RLt(val, centroid.mean)
           THEN addCentroid(d, 0, val)
           ELSE addCentroid(d, 1, val)

\* Mutant of addBetween: the new centroid goes to leftIdx instead of
\* leftIdx + 1.
addBetweenOffByOne(d, leftIdx, leftHasRoom, val) ==
  LET r            == roomCheck(d, leftIdx + 1)
      rightHasRoom == r.room
      d2           == r.d
  IN  IF leftHasRoom /\ rightHasRoom
      THEN [(IF d2.appendLower
             THEN incAt(d2, leftIdx, val)
             ELSE incAt(d2, leftIdx + 1, val))
            EXCEPT !.appendLower = ~d2.appendLower]
      ELSE IF leftHasRoom /\ ~rightHasRoom
           THEN incAt(d2, leftIdx, val)
           ELSE IF ~leftHasRoom /\ rightHasRoom
                THEN incAt(d2, leftIdx + 1, val)
                ELSE addCentroid(d2, leftIdx, val)

\* Mutant of addBetween: the two one-sided cases absorb on the wrong side.
addBetweenSwapped(d, leftIdx, leftHasRoom, val) ==
  LET r            == roomCheck(d, leftIdx + 1)
      rightHasRoom == r.room
      d2           == r.d
  IN  IF leftHasRoom /\ rightHasRoom
      THEN [(IF d2.appendLower
             THEN incAt(d2, leftIdx, val)
             ELSE incAt(d2, leftIdx + 1, val))
            EXCEPT !.appendLower = ~d2.appendLower]
      ELSE IF leftHasRoom /\ ~rightHasRoom
           THEN incAt(d2, leftIdx + 1, val)
           ELSE IF ~leftHasRoom /\ rightHasRoom
                THEN incAt(d2, leftIdx, val)
                ELSE addCentroid(d2, leftIdx + 1, val)

\* Mutant of addBetween: d.appendLower = !d.appendLower is missing.
addBetweenNoFlip(d, leftIdx, leftHasRoom, val) ==
  LET r            == roomCheck(d, leftIdx + 1)
      rightHasRoom == r.room
      d2           == r.d
  IN  IF leftHasRoom /\ rightHasRoom
      THEN IF d2.appendLower
           THEN incAt(d2, leftIdx, val)
           ELSE incAt(d2, leftIdx + 1, val)
      ELSE IF leftHasRoom /\ ~rightHasRoom
           THEN incAt(d2, leftIdx, val)
           ELSE IF ~leftHasRoom /\ rightHasRoom
                THEN incAt(d2, leftIdx + 1, val)
                ELSE addCentroid(d2, leftIdx + 1, val)

\* add, val is between left and right: d is the digest after left's room
\* check, leftHasRoom its result.
addBetween(d, leftIdx, leftHasRoom, val) ==
  LET r            == roomCheck(d, leftIdx + 1)
      rightHasRoom == r.room
      d2           == r.d
  IN  IF leftHasRoom /\ rightHasRoom
      THEN [(IF d2.appendLower
             THEN incAt(d2, leftIdx, val)
             ELSE incAt(d2, leftIdx + 1, val))
            EXCEPT !.appendLower = ~d2.appendLower]
      ELSE IF leftHasRoom /\ ~rightHasRoom
           THEN incAt(d2, leftIdx, val)
           ELSE IF ~leftHasRoom /\ rightHasRoom
                THEN incAt(d2, leftIdx + 1, val)
                ELSE addCentroid(d2, leftIdx + 1, val)

\* Mutant of addMany: the centroid for a new maximum goes to index
\* len(d.centroids) - 1, before the last centroid.
addManyMaxBeforeLast(d, leftIdx, val) ==
  LET l           == roomCheck(d, leftIdx)
      leftHasRoom == l.room
      d1          == l.d
      left        == d1.centroids[leftIdx + 1]
  IN  IF RLt(val, left.mean)
      THEN IF leftHasRoom
           THEN incAt(d1, leftIdx, val)
           ELSE addCentroid(d1, 0, val)
      ELSE IF leftIdx = Len(d1.centroids) - 1
           THEN IF leftHasRoom
                THEN incAt(d1, leftIdx, val)
                ELSE addCentroid(d1, Len(d1.centroids) - 1, val)
           ELSE addBetween(d1, leftIdx, leftHasRoom, val)

\* Mutant of addMany: the return after left.inc(val) in the new-minimum case
\* is missing, so the call goes on into the code for a value between left and
\* right.
addManyNoReturn(d, leftIdx, val) ==
  LET l           == roomCheck(d, leftIdx)
      leftHasRoom == l.room
      d1          == l.d
      left        == d1.centroids[leftIdx + 1]
  IN  IF RLt(val, left.mean)
      THEN IF leftHasRoom
           THEN addBetween(incAt(d1, leftIdx, val), leftIdx, leftHasRoom, val)
           ELSE addCentroid(d1, 0, val)
      ELSE IF leftIdx = Len(d1.centroids) - 1
           THEN IF leftHasRoom
                THEN incAt(d1, leftIdx, val)
                ELSE addCentroid(d1, Len(d1.centroids), val)
           ELSE addBetween(d1, leftIdx, leftHasRoom, val)

\* add, two or more centroids, from the room check of left on.
addMany(d, leftIdx, val) ==
  LET l           == roomCheck(d, leftIdx)
      leftHasRoom == l.room
      d1          == l.d
      left        == d1.centroids[leftIdx + 1]
  IN  IF RLt(val, left.mean)
      THEN IF leftHasRoom
           THEN incAt(d1, leftIdx, val)
           ELSE addCentroid(d1, 0, val)
      ELSE IF leftIdx = Len(d1.centroids) - 1
           THEN IF leftHasRoom
                THEN incAt(d1, leftIdx, val)
                ELSE addCentroid(d1, Len(d1.centroids), val)
           ELSE addBetween(d1, leftIdx, leftHasRoom, val)

\* TDigest.add.  panic is TRUE when d.centroids[leftIdx] is an index out of
\* range: the call does not return and d is left as it was.
add(d, val) ==
  IF d.nCentroids = 0
  THEN [panic |-> FALSE, d |-> addCentroid(d, 0, val)]
  ELSE IF d.nCentroids = 1
       THEN [panic |-> FALSE, d |-> addOne(d, val)]
       ELSE LET leftIdx == nearest(d, val)
            IN  IF leftIdx < 0 \/ leftIdx >= Len(d.centroids)
                THEN [panic |-> TRUE, d |-> d]
                ELSE [panic |-> FALSE, d |-> addMany(d, leftIdx, val)]

\* The values Quantile returns: math.NaN() or a number.
NaN == [nan |-> TRUE, val |-> F(0)]
Num(x) == [nan |-> FALSE, val |-> x]
\* What ret holds when the most recent call returned no value.
NoValue == [nan |-> FALSE, val |-> F(0)]

\* The loop of Quantile from index i (Go) on: <<idx, qTotal>> at its end.
RECURSIVE quantileLoop(_, _, _, _)
quantileLoop(cs, q, i, qTotal) ==
  LET c == cs[i + 1]
  IN  IF RLe(q, RAdd(qTotal, Rat(c.count, 2)))
      THEN <<i, qTotal>>
      ELSE IF i = Len(cs) - 1
           THEN <<i, RAdd(qTotal, F(c.count))>>
           ELSE quantileLoop(cs, q, i + 1, RAdd(qTotal, F(c.count)))

\* slope := 2 * (c1.mean - c0.mean) / (c1.count + c0.count)
slope(c0, c1) ==
  RDiv(RMul(F(2), RSub(c1.mean, c0.mean)), F(c1.count + c0.count))

\* Mutant of quantileMany: q > 1 is not clamped.
quantileManyNoUpperClamp(d, q0) ==
  LET n       == Len(d.centroids)
      qc      == IF RLt(q0, F(0)) THEN F(0) ELSE q0
      q       == RMul(F(d.count), qc)
      w       == quantileLoop(d.centroids, q, 0, F(0))
      idx     == w[1]
      qTotal  == w[2]
  IN  IF idx = 0
      THEN LET c0     == d.centroids[1]
               c1     == d.centroids[2]
               deltaQ == RSub(q, Rat(c0.count, 2))
           IN  RAdd(c0.mean, RMul(slope(c0, c1), deltaQ))
      ELSE IF idx = n - 1
           THEN LET c0     == d.centroids[n - 1]
                    c1     == d.centroids[n]
                    deltaQ == RSub(q, RSub(qTotal, Rat(c1.count, 2)))
                IN  RAdd(c1.mean, RMul(slope(c0, c1), deltaQ))
           ELSE LET c0     == d.centroids[idx]
                    c1     == d.centroids[idx + 1]
                    deltaQ == RSub(q, RAdd(Rat(c1.count, 2), qTotal))
                IN  RAdd(c1.mean, RMul(slope(c0, c1), deltaQ))

\* TDigest.Quantile for two or more centroids.
quantileMany(d, q0) ==
  LET n       == Len(d.centroids)
      qc      == IF RLt(q0, F(0)) THEN F(0)
                 ELSE IF RLt(F(1), q0) THEN F(1) ELSE q0
      q       == RMul(F(d.count), qc)
      w       == quantileLoop(d.centroids, q, 0, F(0))
      idx     == w[1]
      qTotal  == w[2]
  IN  IF idx = 0
      THEN LET c0     == d.centroids[1]
               c1     == d.centroids[2]
               deltaQ == RSub(q, Rat(c0.count, 2))
           IN  RAdd(c0.mean, RMul(slope(c0, c1), deltaQ))
      ELSE IF idx = n - 1
           THEN LET c0     == d.centroids[n - 1]
                    c1     == d.centroids[n]
                    deltaQ == RSub(q, RSub(qTotal, Rat(c1.count, 2)))
                IN  RAdd(c1.mean, RMul(slope(c0, c1), deltaQ))
           ELSE LET c0     == d.centroids[idx]
                    c1     == d.centroids[idx + 1]
                    deltaQ == RSub(q, RAdd(Rat(c1.count, 2), qTotal))
                IN  RAdd(c1.mean, RMul(slope(c0, c1), deltaQ))

\* Mutant of Quantile: the single centroid's count is returned, not its mean.
QuantileSingleCount(d, q) ==
  IF Len(d.centroids) = 0 THEN NaN
  ELSE IF Len(d.centroids) = 1 THEN Num(F(d.centroids[1].count))
       ELSE Num(quantileMany(d, q))

\* Mutant of Quantile: the empty digest is answered with 0.
QuantileEmptyZero(d, q) ==
  IF Len(d.centroids) = 0 THEN Num(F(0))
  ELSE IF Len(d.centroids) = 1 THEN Num(d.centroids[1].mean)
       ELSE Num(quantileMany(d, q))

\* TDigest.Quantile
Quantile(d, q) ==
  IF Len(d.centroids) = 0 THEN NaN
  ELSE IF Len(d.centroids) = 1 THEN Num(d.centroids[1].mean)
       ELSE Num(quantileMany(d, q))

\* --------------------------------------------------------------- the inputs
Compressions == {Rat(k, CompDen) : k \in 1..MaxCompNum}
Values == 0..MaxVal
Quantiles == {Rat(k, QDen) : k \in (-1)..(QDen + 1)}

\* ------------------------------------------------------------ state machine
Init ==
  \E comp \in Compressions :
    LET d == New(comp)
    IN  /\ centroids = d.centroids
        /\ compression = d.compression
        /\ count = d.count
        /\ nCentroids = d.nCentroids
        /\ p5Centroid = d.p5Centroid
        /\ p95Centroid = d.p95Centroid
        /\ appendLower = d.appendLower
        /\ panicked = FALSE
        /\ nAdds = 0
        /\ ret = NoValue

\* TDigest.Add(val): d.add(val); d.count++
AddCall(val) ==
  /\ ~panicked
  /\ \E r \in {add(D, F(val))} :
       IF r.panic
       THEN /\ panicked' = TRUE
            /\ UNCHANGED <<centroids, compression, count, nCentroids,
                           p5Centroid, p95Centroid, appendLower, nAdds, ret>>
       ELSE /\ centroids' = r.d.centroids
            /\ compression' = r.d.compression
            /\ count' = r.d.count + 1
            /\ nCentroids' = r.d.nCentroids
            /\ p5Centroid' = r.d.p5Centroid
            /\ p95Centroid' = r.d.p95Centroid
            /\ appendLower' = r.d.appendLower
            /\ nAdds' = nAdds + 1
            /\ ret' = NoValue
            /\ UNCHANGED panicked

\* Add(val), within the number of calls explored.
Add(val) == nAdds < MaxAdds /\ AddCall(val)

\* Mutant of QuantileCall: the call refreshes the cached weight limit of the
\* first centroid (it consults hasRoom) when there are two or more.
QuantileCallRefreshes(d, q) ==
  [ret |-> Quantile(d, q),
   d   |-> IF Len(d.centroids) >= 2 THEN hasRoom(d, 0).d ELSE d]

\* A call d.Quantile(q): the value it returns and the receiver after it.
\* Quantile assigns only its locals n, q, qTotal and idx, never a field of d
\* or of a centroid.
QuantileCall(d, q) == [ret |-> Quantile(d, q), d |-> d]

\* TDigest.Quantile(q): reads d and returns the estimate.
Query(q) ==
  /\ ~panicked
  /\ \E r \in {QuantileCall(D, q)} :
       /\ ret' = r.ret
       /\ centroids' = r.d.centroids
       /\ compression' = r.d.compression
       /\ count' = r.d.count
       /\ nCentroids' = r.d.nCentroids
       /\ p5Centroid' = r.d.p5Centroid
       /\ p95Centroid' = r.d.p95Centroid
       /\ appendLower' = r.d.appendLower
  /\ UNCHANGED <<panicked, nAdds>>

Next ==
  \/ \E val \in Values : Add(val)
  \/ \E q \in Quantiles : Query(q)

Spec == Init /\ [][Next]_vars

\* ------------------------------------------- a long ascending stream
\* A second caller, for the claims about nearest on large stores: the digest
\* is built with compression 1/LocCompDen, so small that no centroid ever
\* has room, and is fed the values 0, 2, 4, ... in ascending order.  Every
\* Add then appends a centroid, and after 2 * binarySearchThreshold calls or
\* so the binary-search loop of nearest runs.  Locate(val) applies nearest
\* to the store at hand.
LocCompDen == 100
MaxStore == 53
LocValues == 0..(2 * MaxStore + 1)

LocInit ==
  LET d == New(Rat(1, LocCompDen))
  IN  /\ centroids = d.centroids
      /\ compression = d.compression
      /\ count = d.count
      /\ nCentroids = d.nCentroids
      /\ p5Centroid = d.p5Centroid
      /\ p95Centroid = d.p95Centroid
      /\ appendLower = d.appendLower
      /\ panicked = FALSE
      /\ nAdds = 0
      /\ ret = NoValue

\* The caller adds the next value of the stream.
Grow == nAdds < MaxStore /\ AddCall(2 * nAdds)

\* d.nearest(val) on a store of two or more centroids; ret is the index.
Locate(val) ==
  /\ ~panicked
  /\ nCentroids >= 2
  /\ ret' = Num(F(nearest(D, F(val))))
  /\ UNCHANGED <<centroids, compression, count, nCentroids, p5Centroid,
                 p95Centroid, appendLower, panicked, nAdds>>

LocNext ==
  \/ Grow
  \/ \E val \in LocValues : Locate(val)

LocSpec == LocInit /\ [][LocNext]_vars

\* ------------------------------------------------------------------ claims
\* Sum of the count fields of all centroids.
SumOfCounts == sumCounts(centroids, 1, Len(centroids))

\* The means of the centroids are not all equal.
MeansDiffer ==
  Len(centroids) >= 2 /\ RLt(centroids[1].mean, centroids[Len(centroids)].mean)

\* Some Add call has returned with val as its argument in this step.
AddReturned(val) == Add(val) /\ ~panicked'

\* C1: after any sequence of Add calls the centroid means are non-decreasing
\* by index.
C1_Sorted ==
  \A i \in 1..(Len(centroids) - 1) :
    RLe(centroids[i].mean, centroids[i + 1].mean)

\* C1 witness: three centroids of distinct means, one of which has absorbed a
\* value after the digest held more than one centroid.
C1_Witness ==
  /\ Len(centroids) >= 3
  /\ \A i \in 1..(Len(centroids) - 1) :
       RLt(centroids[i].mean, centroids[i + 1].mean)
  /\ \E i \in 2..Len(centroids) : centroids[i].count >= 2

\* C2: no Add call fails: nearest never yields an index outside
\* 0..nCentroids-1 and no centroid is read at an out-of-range index.
C2_NoFailure ==
  /\ ~panicked
  /\ nCentroids >= 2 =>
       \A val \in Values : nearest(D, F(val)) \in 0..(nCentroids - 1)

\* C3: for a fixed digest that holds at least one value, Quantile is
\* non-decreasing in q.
C3_Monotone ==
  nAdds >= 1 =>
    \A q1, q2 \in Quantiles :
      RLe(q1, q2) => RLe(Quantile(D, q1).val, Quantile(D, q2).val)

\* C4: after N Add calls count is N and is the sum of the centroids' counts.
C4_TotalCount == count = nAdds /\ count = SumOfCounts

\* C4 witness: several calls, some absorbed and some creating a centroid.
C4_Witness ==
  /\ nAdds >= 4
  /\ Len(centroids) >= 2
  /\ \E i \in 1..Len(centroids) : centroids[i].count >= 2

\* An Add step that folded val into one existing centroid: its count grew by
\* one, the mean and count of every other centroid are as before.
Absorbed ==
  /\ Len(centroids') = Len(centroids)
  /\ \E i \in 1..Len(centroids) :
       /\ centroids'[i].count = centroids[i].count + 1
       /\ \A j \in 1..Len(centroids) :
            j # i => /\ centroids'[j].mean = centroids[j].mean
                     /\ centroids'[j].count = centroids[j].count

\* An Add step that inserted one centroid of count 1 and mean val: the
\* centroids before it and after it are the old ones, in their old order.
Inserted(val) ==
  /\ Len(centroids') = Len(centroids) + 1
  /\ \E i \in 1..Len(centroids') :
       /\ centroids'[i].count = 1
       /\ centroids'[i].mean = F(val)
       /\ \A j \in 1..(i - 1) :
            /\ centroids'[j].mean = centroids[j].mean
            /\ centroids'[j].count = centroids[j].count
       /\ \A j \in (i + 1)..Len(centroids') :
            /\ centroids'[j].mean = centroids[j - 1].mean
            /\ centroids'[j].count = centroids[j - 1].count

\* C5: centroids are never removed or merged: every Add either absorbs into
\* exactly one centroid or inserts exactly one, and no step shrinks the
\* sequence or grows it by more than one.
C5_Frame ==
  [][/\ Len(centroids') \in {Len(centroids), Len(centroids) + 1}
     /\ nAdds' # nAdds =>
          \A val \in Values :
            AddReturned(val) => (Absorbed \/ Inserted(val))]_vars

\* C5 witness: both kinds of step have happened: an interior centroid still
\* has the count 1 it was inserted with, another has absorbed a value.
C5_Witness ==
  /\ Len(centroids) >= 3
  /\ \E i \in 2..(Len(centroids) - 1) :
       /\ centroids[i].count = 1
       /\ \E j \in 1..Len(centroids) : centroids[j].count >= 2

\* C6: with exactly one centroid Quantile returns its mean for every q, inside
\* or outside [0,1]; after New and one Add(val) that is val.
C6_Single ==
  /\ [](Len(centroids) = 1 =>
          \A q \in Quantiles : Quantile(D, q) = Num(centroids[1].mean))
  /\ [][nAdds = 0 =>
          \A val \in Values :
            AddReturned(val) =>
              \A q \in Quantiles : Quantile(D, q)' = Num(F(val))]_vars

\* C6 witness: a query answered by a single centroid that has absorbed
\* values of different size (its mean is not an integer).
C6_Witness ==
  /\ Len(centroids) = 1
  /\ centroids[1].count >= 2
  /\ centroids[1].mean[2] > 1
  /\ ret = Num(centroids[1].mean)

\* C7: before any Add, Quantile returns NaN for every q; once a value has
\* been added it returns a number.
C7_NaN ==
  /\ nAdds = 0 => \A q \in Quantiles : Quantile(D, q) = NaN
  /\ nAdds >= 1 => \A q \in Quantiles : ~Quantile(D, q).nan

\* C7 witness: a query on the empty digest has returned NaN.
C7_Witness == nAdds = 0 /\ ret.nan

\* C8: q below 0 is answered as q = 0, q above 1 as q = 1.
C8_Clamped ==
  \A q \in Quantiles :
    /\ RLt(q, F(0)) => Quantile(D, q) = Quantile(D, F(0))
    /\ RLt(F(1), q) => Quantile(D, q) = Quantile(D, F(1))

\* C8 witness: a query with q < 0 on centroids of different means, where the
\* estimate does depend on q.
C8_Witness ==
  /\ MeansDiffer
  /\ ret = Quantile(D, Rat(-1, QDen))
  /\ Quantile(D, F(0)) # Quantile(D, F(1))

\* C9: once a value has been added, Quantile(1) >= Quantile(0).
C9_Ends ==
  nAdds >= 1 => RLe(Quantile(D, F(0)).val, Quantile(D, F(1)).val)

\* C9 witness: three centroids, and the two ends differ.
C9_Witness ==
  /\ Len(centroids) >= 3
  /\ RLt(Quantile(D, F(0)).val, Quantile(D, F(1)).val)

\* C10: nCentroids is the length of centroids.
C10_Cached == nCentroids = Len(centroids)

\* C10 witness: addCentroid has run four times.
C10_Witness == nCentroids >= 4 /\ Len(centroids) >= 4

\* C11: Quantile is a pure query: a step in which no Add call returns (a
\* Quantile call, or an Add call that panics) leaves the centroids with their
\* means, counts and cached limits, count, nCentroids, the p5/p95 indices and
\* appendLower as they were.
C11_PureQuery ==
  [][nAdds' = nAdds =>
       UNCHANGED <<centroids, compression, count, nCentroids, p5Centroid,
                   p95Centroid, appendLower>>]_vars

\* C11 witness: Quantile has answered on a digest of three centroids, one of
\* which holds a cached weight limit.
C11_Witness ==
  /\ Len(centroids) >= 3
  /\ ret # NoValue
  /\ \E i \in 1..Len(centroids) : centroids[i].nCentroids # 0

\* q * count, the target of Quantile in count units, for q in [0,1].
Target(q) == RMul(F(count), q)

\* The half-weight point of the centroid at Go index i: the weight of all
\* earlier centroids plus half its own count.
HalfPoint(i) ==
  RAdd(F(sumCounts(centroids, 1, i)), Rat(centroids[i + 1].count, 2))

\* The anchor for q is the last centroid: its half-weight point reaches the
\* target and no earlier centroid's does.
AnchorIsLast(q) ==
  /\ RLe(Target(q), HalfPoint(Len(centroids) - 1))
  /\ \A i \in 0..(Len(centroids) - 2) : RLt(HalfPoint(i), Target(q))

\* C12: with two or more centroids, when the anchor is the last centroid the
\* estimate is meanLast + slope * (target - half-weight point of the last
\* centroid), slope = 2 * (meanLast - meanPrev) / (countLast + countPrev).
C12_LastAnchor ==
  Len(centroids) >= 2 =>
    \A q \in Quantiles :
      (RLe(F(0), q) /\ RLe(q, F(1)) /\ AnchorIsLast(q)) =>
        LET n    == Len(centroids)
            last == centroids[n]
            prev == centroids[n - 1]
        IN  Quantile(D, q) =
              Num(RAdd(last.mean,
                       RMul(slope(prev, last),
                            RSub(Target(q), HalfPoint(n - 1)))))

\* The Go index nearest returns for val in the current state.
LeftIdx(val) == nearest(D, F(val))

\* leftHasRoom as add evaluates it for val in the current state.
LeftHasRoom(val) == roomCheck(D, LeftIdx(val)).room

\* rightHasRoom as add evaluates it for val, after the room check of left.
RightHasRoom(val) ==
  roomCheck(roomCheck(D, LeftIdx(val)).d, LeftIdx(val) + 1).room

\* With two or more centroids, val is bracketed by the adjacent centroids
\* left = centroids[LeftIdx] and right = centroids[LeftIdx + 1].
Bracketed(val) ==
  /\ nCentroids >= 2
  /\ LeftIdx(val) \in 0..(Len(centroids) - 2)
  /\ ~RLt(F(val), centroids[LeftIdx(val) + 1].mean)

\* This step folded a value into the centroid at Go index i and into no
\* other: its count grew by one, every other mean and count is as before.
AbsorbedAt(i) ==
  /\ Len(centroids') = Len(centroids)
  /\ centroids'[i + 1].count = centroids[i + 1].count + 1
  /\ \A j \in 1..Len(centroids) :
       j # i + 1 => /\ centroids'[j].mean = centroids[j].mean
                    /\ centroids'[j].count = centroids[j].count

\* This step inserted a centroid of count 1 and mean val at Go index i; the
\* old centroids keep their order, means and counts.
InsertedAt(i, val) ==
  /\ Len(centroids') = Len(centroids) + 1
  /\ centroids'[i + 1].count = 1
  /\ centroids'[i + 1].mean = F(val)
  /\ \A j \in 1..i :
       /\ centroids'[j].mean = centroids[j].mean
       /\ centroids'[j].count = centroids[j].count
  /\ \A j \in (i + 2)..Len(centroids') :
       /\ centroids'[j].mean = centroids[j - 1].mean
       /\ centroids'[j].count = centroids[j - 1].count

\* C13: the decision table for a value bracketed by left and right: both have
\* room -> left absorbs if appendLower is set, else right; only left has room
\* -> left absorbs; only right -> right absorbs; neither -> a centroid of
\* count 1 and mean val is inserted between them and no count changes.
C13_DecisionTable ==
  [][nAdds' # nAdds =>
       \A val \in Values :
         (AddReturned(val) /\ Bracketed(val)) =>
           LET li == LeftIdx(val)
               lr == LeftHasRoom(val)
               rr == RightHasRoom(val)
           IN  /\ (lr /\ rr) =>
                    IF appendLower THEN AbsorbedAt(li) ELSE AbsorbedAt(li + 1)
               /\ (lr /\ ~rr) => AbsorbedAt(li)
               /\ (~lr /\ rr) => AbsorbedAt(li + 1)
               /\ (~lr /\ ~rr) => InsertedAt(li + 1, val)]_vars

\* C13 witness: a both-have-room add has set appendLower, and an interior
\* centroid was inserted between two others that had no room (its weight
\* limit was never computed, which every centroid that was once first or
\* last has had done).
C13_Witness ==
  /\ appendLower
  /\ \E i \in 2..(Len(centroids) - 1) : centroids[i].nCentroids = 0

\* The weight limit of the centroid at Go index i in the current state:
\* 4 * compression * q * (1 - q) * nCentroids, q its estimated quantile.
Capacity(i) ==
  LET q == quantileOf(D, i)
  IN  RMul(RMul(RMul(RMul(F(4), compression), q), RSub(F(1), q)),
           F(nCentroids))

\* In this step the cache of the old centroid j (1-based), now at position
\* k, was either kept or set to the limit computed from the current state.
CacheKeptOrComputed(j, k) ==
  \/ /\ centroids'[k].maxCount = centroids[j].maxCount
     /\ centroids'[k].nCentroids = centroids[j].nCentroids
  \/ /\ centroids'[k].maxCount = Capacity(j - 1)
     /\ centroids'[k].nCentroids = nCentroids

\* The same for every old centroid, whether the step inserted a centroid (at
\* some Go index i, with an empty cache) or not.
CachesKeptOrComputed ==
  \/ /\ Len(centroids') = Len(centroids)
     /\ \A j \in 1..Len(centroids) : CacheKeptOrComputed(j, j)
  \/ /\ Len(centroids') = Len(centroids) + 1
     /\ \E i \in 0..Len(centroids) :
          /\ centroids'[i + 1] = newCentroid(centroids'[i + 1].mean)
          /\ \A j \in 1..Len(centroids) :
               CacheKeptOrComputed(j, IF j <= i THEN j ELSE j + 1)

\* C14: with two or more centroids, a centroid absorbs only if its count is
\* below its cached weight limit, which has been computed for it (a fresh
\* centroid holds none) and is 4 * compression * q * (1 - q) * nCentroids as
\* of the last time it was computed.
C14_Capacity ==
  [][(nAdds' # nAdds /\ nCentroids >= 2) =>
       /\ CachesKeptOrComputed
       /\ \A i \in 0..(Len(centroids) - 1) :
            AbsorbedAt(i) =>
              /\ centroids'[i + 1].nCentroids # 0
              /\ RLt(F(centroids[i + 1].count), centroids'[i + 1].maxCount)]_vars

\* C14 witness: the first centroid was full when the second was created
\* (compression <= 1), a centroid has absorbed since, and the limit it holds
\* was computed at an earlier centroid count.
C14_Witness ==
  /\ RLe(compression, F(1))
  /\ \E i \in 1..Len(centroids) :
       /\ centroids[i].count >= 2
       /\ centroids[i].nCentroids # 0
       /\ centroids[i].nCentroids < nCentroids

\* C15: with exactly one centroid, Add folds the value into it iff its count
\* is below compression, and otherwise creates the second centroid, at index
\* 0 if the value is below the existing mean and at index 1 if not.  For an
\* integer compression C >= 1 the digest holds one centroid of count N after
\* N <= C calls and two centroids after call C + 1.
C15_OneCentroid ==
  /\ [][(nAdds' # nAdds /\ nCentroids = 1) =>
          \A val \in Values :
            AddReturned(val) =>
              IF RLt(F(centroids[1].count), compression)
              THEN AbsorbedAt(0)
              ELSE IF RLt(F(val), centroids[1].mean)
                   THEN InsertedAt(0, val)
                   ELSE InsertedAt(1, val)]_vars
  /\ [](compression[2] = 1 =>
          /\ (1 <= nAdds /\ nAdds <= compression[1]) =>
               (Len(centroids) = 1 /\ centroids[1].count = nAdds)
          /\ nAdds = compression[1] + 1 => Len(centroids) = 2)

\* C15 witness: compression 2, the first two values were folded into one
\* centroid and the third, a smaller one, became the new first centroid.
C15_Witness ==
  /\ compression = F(2)
  /\ nAdds = 3
  /\ Len(centroids) = 2
  /\ centroids[1].count = 1
  /\ centroids[2].count = 2

\* C16: with two or more centroids, a value below the leftmost mean is
\* absorbed by the leftmost centroid if it has room and otherwise becomes a
\* new centroid at position 0; a value above the rightmost mean is absorbed
\* by the rightmost centroid if it has room and otherwise becomes a new
\* centroid at the last position.  No other centroid's mean or count changes.
C16_Ends ==
  [][(nAdds' # nAdds /\ nCentroids >= 2) =>
       \A val \in Values :
         AddReturned(val) =>
           LET n == Len(centroids)
           IN  /\ RLt(F(val), centroids[1].mean) =>
                    IF roomCheck(D, 0).room
                    THEN AbsorbedAt(0)
                    ELSE InsertedAt(0, val)
               /\ RLt(centroids[n].mean, F(val)) =>
                    IF roomCheck(D, n - 1).room
                    THEN AbsorbedAt(n - 1)
                    ELSE InsertedAt(n, val)]_vars

\* C16 witness: compression 1 and two centroids, the third value was absorbed
\* by the leftmost one as a new minimum (a value between the two would have
\* found room on both sides and set appendLower).
C16_Witness ==
  /\ compression = F(1)
  /\ nAdds = 3
  /\ Len(centroids) = 2
  /\ centroids[1].count = 2
  /\ ~appendLower

\* C17: nearest returns an index i in 0..n-1 whose centroid and successor
\* bracket val: mean[i] <= val whenever i > 0, val <= mean[i+1] whenever
\* i < n-1.
C17_Brackets ==
  nCentroids >= 2 =>
    \A val \in Values :
      LET i == nearest(D, F(val))
      IN  /\ i \in 0..(nCentroids - 1)
          /\ i > 0 => RLe(centroids[i + 1].mean, F(val))
          /\ i < nCentroids - 1 => RLe(F(val), centroids[i + 2].mean)

\* C18: the index nearest returns does not depend on the crossover
\* threshold: with binarySearchThreshold it is the index a pure linear scan
\* of the same window returns (threshold = the size of the store).
C18_ThresholdFree ==
  nCentroids >= 2 =>
    \A val \in LocValues :
      nearestT(D, F(val), binarySearchThreshold)
        = nearestT(D, F(val), nCentroids)

\* val is bracketed by two centroids that both have room.
BothHaveRoom(val) ==
  Bracketed(val) /\ LeftHasRoom(val) /\ RightHasRoom(val)

\* C19: appendLower flips on exactly those Add calls whose value is
\* bracketed by two centroids that both have room, and on no other step;
\* such a call absorbs on the left if appendLower was set and on the right
\* if not, so two of them in a row absorb on opposite sides, the first one
\* after New on the right.
C19_Toggle ==
  /\ [][IF nAdds' # nAdds
        THEN \A val \in Values :
               AddReturned(val) =>
                 /\ (appendLower' # appendLower) <=> BothHaveRoom(val)
                 /\ BothHaveRoom(val) =>
                      IF appendLower
                      THEN AbsorbedAt(LeftIdx(val)) /\ ~appendLower'
                      ELSE AbsorbedAt(LeftIdx(val) + 1) /\ appendLower'
        ELSE appendLower' = appendLower]_vars
  /\ [](nCentroids < 2 => ~appendLower)

\* C19 witness: compression 1, two centroids; the third value found room on
\* both sides, was absorbed on the right and set appendLower.
C19_Witness ==
  /\ compression = F(1)
  /\ nAdds = 3
  /\ Len(centroids) = 2
  /\ centroids[1].count = 1
  /\ centroids[2].count = 2
  /\ appendLower

\* The weight limit 4 * compression * q * (1 - q) * nCentroids for the
\* estimated quantile q.
CapacityAt(q) ==
  RMul(RMul(RMul(RMul(F(4), compression), q), RSub(F(1), q)), F(nCentroids))

\* The estimated quantile of the centroid at Go index i, summed from the end
\* quantileOf does not use for it.
QuantileFromOtherEnd(i) ==
  IF i > nCentroids \div 2
  THEN quantileFromBottom(D, i)
  ELSE quantileFromTop(D, i)

\* In this step the cache of the old centroid j (1-based), now at position
\* k, was either kept or set to the limit that the sum from the other end
\* gives, with count as it is before the call.
CacheKeptOrFromOtherEnd(j, k) ==
  \/ /\ centroids'[k].maxCount = centroids[j].maxCount
     /\ centroids'[k].nCentroids = centroids[j].nCentroids
  \/ /\ centroids'[k].maxCount = CapacityAt(QuantileFromOtherEnd(j - 1))
     /\ centroids'[k].nCentroids = nCentroids

\* C20: wherever add consults the weight limit, the estimated quantile of a
\* centroid is the same from either end: 1 - (count/2 + counts after)/count
\* of the digest = (count/2 + counts before)/count of the digest.  The
\* limits cached during an Add call are the ones the other end gives with the
\* digest's count not yet incremented.
C20_EitherEnd ==
  /\ [](nCentroids >= 2 =>
          \A i \in 0..(Len(centroids) - 1) :
            quantileFromTop(D, i) = quantileFromBottom(D, i))
  /\ [][(nAdds' # nAdds /\ nCentroids >= 2) =>
          \/ /\ Len(centroids') = Len(centroids)
             /\ \A j \in 1..Len(centroids) : CacheKeptOrFromOtherEnd(j, j)
          \/ /\ Len(centroids') = Len(centroids) + 1
             /\ \E i \in 0..Len(centroids) :
                  /\ centroids'[i + 1] = newCentroid(centroids'[i + 1].mean)
                  /\ \A j \in 1..Len(centroids) :
                       CacheKeptOrFromOtherEnd(j, IF j <= i THEN j ELSE j + 1)]_vars

\* C20 witness: the last of three or more centroids holds a limit computed
\* when it was the last of at least three, by the sum from the top.
C20_Witness ==
  /\ Len(centroids) >= 3
  /\ centroids[Len(centroids)].nCentroids >= 3

====
